---- MODULE Spec2Model ----
(***************************************************************************)
(* Model of region-entry-recovery (src/src/main.rs, src/src/util.rs):      *)
(* the scan of a region file for decodable chunk payloads, the resolution  *)
(* of the candidates of every header slot, the header rewrite and the      *)
(* batch loop of main.                                                     *)
(*                                                                         *)
(* A byte buffer (Vec<u8>) is the record [len, data]: data maps the        *)
(* offsets of the non-zero bytes to their values, every other offset below *)
(* len holds 0.  Text (file name tokens, lines read from stdin) is a       *)
(* sequence of one-character strings.                                      *)
(***************************************************************************)
EXTENDS Integers, Sequences, FiniteSets, TLC

Pow2(n) == 2 ^ n

\* ------------------------------------------------------------ constants
SECTOR_SIZE == 4096
SIZE_BITS == 8
SIZE_MASK == Pow2(SIZE_BITS) - 1

\* ------------------------------------------------------------ bounds
\* Largest number of whole sectors of a region file (header, timestamps and
\* MaxSectors - 2 payload sectors).
MaxSectors == 5
\* Largest number of files in the region directory.
MaxFiles == 2
\* Largest number of rejected lines typed at the prompts of one file.
MaxRejected == 1

Min(a, b) == IF a < b THEN a ELSE b

\* ------------------------------------------------------------ byte buffers
NoData == [i \in {} |-> 0]

\* bytes[i]
ByteAt(b, i) == IF i \in DOMAIN b.data THEN b.data[i] ELSE 0

\* bytes[i] = v
SetByte(b, i, v) ==
    [b EXCEPT !.data =
        [j \in (IF v = 0 THEN DOMAIN b.data \ {i} ELSE DOMAIN b.data \cup {i})
            |-> IF j = i THEN v ELSE b.data[j]]]

\* The offsets at which two buffers of the same length differ.
DiffOffsets(a, b) ==
    {i \in DOMAIN a.data \cup DOMAIN b.data : ByteAt(a, i) # ByteAt(b, i)}

read_bigendian_u32(b, header_offset) ==
    ByteAt(b, header_offset + 3)
        + ByteAt(b, header_offset + 2) * Pow2(8)
        + ByteAt(b, header_offset + 1) * Pow2(16)
        + ByteAt(b, header_offset + 0) * Pow2(24)

\* The four byte stores of set_header_entry.
HeaderStores(b, header_offset, sector_idx, size) ==
    LET b3 == SetByte(b, header_offset + 3, size)
        b2 == SetByte(b3, header_offset + 2, sector_idx % 256)
        b1 == SetByte(b2, header_offset + 1, (sector_idx \div Pow2(8)) % 256)
    IN  SetByte(b1, header_offset + 0, (sector_idx \div Pow2(16)) % 256)

\* set_header_entry: the stores, then the two assert_eq! on the value read
\* back (sector_idx as u32 is sector_idx itself for every sector index below
\* 2^31, the integers of this model).
set_header_entry(b, header_offset, sector_idx, size) ==
    LET nb == HeaderStores(b, header_offset, sector_idx, size)
        packed == read_bigendian_u32(nb, header_offset)
        written_offset == packed \div Pow2(SIZE_BITS)
        written_size == packed % (SIZE_MASK + 1)
    IN  [bytes |-> nb,
         ok |-> sector_idx = written_offset /\ size = written_size]

\* chunk_position_from_entry_idx (the shifts lose no bit for the region
\* positions of this model).
chunk_position_from_entry_idx(position, entry_idx) ==
    LET entry_x == entry_idx % 32
        entry_z == entry_idx \div 32
    IN  <<position[1] * 32 + entry_x, position[2] * 32 + entry_z>>

\* ------------------------------------------------------------ text
Digits == {"0", "1", "2", "3", "4", "5", "6", "7", "8", "9"}
DigitVal(c) ==
    CASE c = "0" -> 0 [] c = "1" -> 1 [] c = "2" -> 2 [] c = "3" -> 3
      [] c = "4" -> 4 [] c = "5" -> 5 [] c = "6" -> 6 [] c = "7" -> 7
      [] c = "8" -> 8 [] c = "9" -> 9

RECURSIVE DecimalValue(_)
DecimalValue(s) ==
    IF s = <<>> THEN 0
    ELSE DecimalValue(SubSeq(s, 1, Len(s) - 1)) * 10 + DigitVal(s[Len(s)])

I32Max == 2147483647
I32Min == (0 - I32Max) - 1

\* str::parse::<i32>: an optional sign, then one or more decimal digits, the
\* value within the range of i32.
ParseI32(s) ==
    LET signed == s # <<>> /\ s[1] \in {"-", "+"}
        digits == IF signed THEN Tail(s) ELSE s
        wellFormed == digits # <<>> /\ \A i \in 1..Len(digits) : digits[i] \in Digits
        value == IF signed /\ s[1] = "-" THEN 0 - DecimalValue(digits)
                 ELSE DecimalValue(digits)
    IN  IF wellFormed /\ value >= I32Min /\ value <= I32Max
        THEN [ok |-> TRUE, value |-> value]
        ELSE [ok |-> FALSE, value |-> 0]

trim_newline(s) ==
    IF s # <<>> /\ s[Len(s)] = "\n"
    THEN LET t == SubSeq(s, 1, Len(s) - 1)
         IN  IF t # <<>> /\ t[Len(t)] = "\r" THEN SubSeq(t, 1, Len(t) - 1) ELSE t
    ELSE s

\* str::to_lowercase on the letters the typed lines use.
LowerChar(c) ==
    CASE c = "T" -> "t" [] c = "A" -> "a" [] c = "K" -> "k" [] c = "E" -> "e"
      [] c = "C" -> "c" [] c = "U" -> "u" [] c = "R" -> "r" [] c = "N" -> "n"
      [] OTHER -> c
to_lowercase(s) == [i \in 1..Len(s) |-> LowerChar(s[i])]

\* str::split('.') of a sequence of characters.
RECURSIVE SplitDots(_, _, _)
SplitDots(s, cur, acc) ==
    IF s = <<>> THEN Append(acc, cur)
    ELSE IF Head(s) = "." THEN SplitDots(Tail(s), <<>>, Append(acc, cur))
    ELSE SplitDots(Tail(s), Append(cur, Head(s)), acc)
split_dots(s) == SplitDots(s, <<>>, <<>>)

\* Path::extension: the part of the file name after its last dot, if the name
\* has a dot that is not its first character.
HasExtension(name) ==
    \E i \in 2..Len(name) : name[i] = "."
Extension(name) ==
    LET toks == split_dots(name) IN toks[Len(toks)]
ends_with(s, suffix) ==
    /\ Len(s) >= Len(suffix)
    /\ SubSeq(s, Len(s) - Len(suffix) + 1, Len(s)) = suffix

\* ------------------------------------------------------------ the decoder
\* quartz_nbt::io::read_nbt is an external collaborator.  Its stand-in reads a
\* four-byte stream: the format marker (1 gzip, 2 zlib, standing for the
\* stream's magic), the shape of the tree, and xPos and zPos as signed bytes.
\* It fails on a stream cut short, on a marker that is not the flavor asked
\* for, and on an unknown shape.
StreamLen == 4
SignedByte(v) == IF v >= 128 THEN v - 256 ELSE v
IntTag(v) == [tag |-> "Int", value |-> v]
StringTag == [tag |-> "String", value |-> 0]
NoTag == [tag |-> "None", value |-> 0]
NoFields == [xPos |-> NoTag, zPos |-> NoTag]

\* The trees the stand-in can return, by shape code.
TreeOfShape(shape, x, z) ==
    CASE shape = 1 -> [Level |-> "absent",
                       top |-> [xPos |-> IntTag(x), zPos |-> IntTag(z)],
                       level |-> NoFields]
      [] shape = 2 -> [Level |-> "compound", top |-> NoFields,
                       level |-> [xPos |-> IntTag(x), zPos |-> IntTag(z)]]
      [] shape = 3 -> [Level |-> "other",
                       top |-> [xPos |-> IntTag(x), zPos |-> IntTag(z)],
                       level |-> NoFields]
      [] shape = 4 -> [Level |-> "absent",
                       top |-> [xPos |-> NoTag, zPos |-> IntTag(z)],
                       level |-> NoFields]
      [] shape = 5 -> [Level |-> "compound",
                       top |-> [xPos |-> IntTag(x), zPos |-> IntTag(z)],
                       level |-> [xPos |-> IntTag(x), zPos |-> StringTag]]
Shapes == 1..5

read_nbt(b, slice_start, slice_end, flavor) ==
    LET marker == ByteAt(b, slice_start)
        shape == ByteAt(b, slice_start + 1)
    IN  IF slice_end - slice_start >= StreamLen /\ marker = flavor /\ shape \in Shapes
        THEN [ok |-> TRUE,
              tree |-> TreeOfShape(shape, SignedByte(ByteAt(b, slice_start + 2)),
                                   SignedByte(ByteAt(b, slice_start + 3)))]
        ELSE [ok |-> FALSE, tree |-> TreeOfShape(1, 0, 0)]

\* ------------------------------------------------------------ discovery
\* f32::ceil(size_bytes as f32 / SECTOR_SIZE as f32) as u8: the cast to u8
\* saturates at 255; the f32 arithmetic is exact below that.
SizeSectors(size_bytes) ==
    Min(255, (size_bytes + SECTOR_SIZE - 1) \div SECTOR_SIZE)

\* The check of the declared length and the compression tag: TRUE when the
\* sector is skipped.
SizeOrFormatInvalid(b, byte_offset, size_bytes, compression_format) ==
    \/ size_bytes > b.len - byte_offset
    \/ (compression_format # 1 /\ compression_format # 2)

SliceStart(byte_offset) == byte_offset + 4 + 1
SliceEnd(byte_offset, size_bytes) == SliceStart(byte_offset) + size_bytes

\* ((chunk_x & 0x1f) + ((chunk_z & 0x1f) << 5)) as usize
HeaderOffsetOf(chunk_x, chunk_z) == (chunk_x % 32) + ((chunk_z % 32) * 32)

IsCurrentEntry(b, header_offset, sector_idx, size_sectors) ==
    LET existing_packed == read_bigendian_u32(b, header_offset * 4)
        existing_offset == existing_packed \div Pow2(SIZE_BITS)
        existing_size == existing_packed % (SIZE_MASK + 1)
    IN  existing_offset = sector_idx /\ existing_size = size_sectors

\* The field container the coordinates are read from.
LevelOf(tree) == IF tree.Level = "absent" THEN tree.top ELSE tree.level

\* One iteration of the scan loop.  outcome is "skip" (size or format
\* invalid), "slice_panic" (the slice ends past the buffer), "decode_failed",
\* "no_level" (Level is not a compound), "coord_panic" (unwrap of a missing or
\* non-integer xPos or zPos) or "entry".
ScanSector(b, sector_idx) ==
    LET byte_offset == sector_idx * SECTOR_SIZE
        size_bytes == read_bigendian_u32(b, byte_offset)
        compression_format == ByteAt(b, byte_offset + 4)
        size_sectors == SizeSectors(size_bytes)
        slice_start == SliceStart(byte_offset)
        slice_end == SliceEnd(byte_offset, size_bytes)
        root == read_nbt(b, slice_start, slice_end, compression_format)
        level == LevelOf(root.tree)
        header_offset == HeaderOffsetOf(level.xPos.value, level.zPos.value)
        base == [sector |-> sector_idx, outcome |-> "skip", slice_end |-> slice_end,
                 slot |-> 0,
                 entry |-> [offset_sectors |-> sector_idx, size_sectors |-> size_sectors,
                            is_current |-> FALSE]]
    IN  IF SizeOrFormatInvalid(b, byte_offset, size_bytes, compression_format)
        THEN base
        ELSE IF slice_end > b.len
        THEN [base EXCEPT !.outcome = "slice_panic"]
        ELSE IF ~root.ok
        THEN [base EXCEPT !.outcome = "decode_failed"]
        ELSE IF root.tree.Level = "other"
        THEN [base EXCEPT !.outcome = "no_level"]
        ELSE IF level.xPos.tag # "Int" \/ level.zPos.tag # "Int"
        THEN [base EXCEPT !.outcome = "coord_panic"]
        ELSE [base EXCEPT !.outcome = "entry", !.slot = header_offset,
                          !.entry.is_current =
                              IsCurrentEntry(b, header_offset, sector_idx, size_sectors)]

Panics(outcome) == outcome \in {"slice_panic", "coord_panic"}

\* existing_entries.push(entry): the lists of the slots with no entry are
\* empty and are left out of the map.
PushEntry(entries, slot, entry) ==
    [s \in DOMAIN entries \cup {slot} |->
        IF s = slot
        THEN (IF s \in DOMAIN entries THEN Append(entries[s], entry) ELSE <<entry>>)
        ELSE entries[s]]

\* discover_all_entries: for sector_idx in 2..bytes.len() / SECTOR_SIZE.
\* scan is the record of every iteration made; a panic ends the scan.
RECURSIVE DiscoverFrom(_, _, _, _)
DiscoverFrom(b, sector_idx, entries, scan) ==
    IF sector_idx >= b.len \div SECTOR_SIZE
    THEN [panicked |-> FALSE, entries |-> entries, scan |-> scan]
    ELSE LET r == ScanSector(b, sector_idx)
         IN  IF Panics(r.outcome)
             THEN [panicked |-> TRUE, entries |-> entries, scan |-> Append(scan, r)]
             ELSE DiscoverFrom(b, sector_idx + 1,
                               IF r.outcome = "entry"
                               THEN PushEntry(entries, r.slot, r.entry)
                               ELSE entries,
                               Append(scan, r))

NoEntries == [s \in {} |-> <<>>]
discover_all_entries(b) == DiscoverFrom(b, 2, NoEntries, <<>>)

\* ------------------------------------------------------------ resolution
TakeCurrent == "TakeCurrent"
TakeUntracked == "TakeUntracked"
\* Option<DuplicateBehaviour>
Unset == "None"

RECURSIVE CountIf(_, _)
CountIf(list, wantCurrent) ==
    IF list = <<>> THEN 0
    ELSE (IF Head(list).is_current = wantCurrent THEN 1 ELSE 0)
            + CountIf(Tail(list), wantCurrent)
current_count(list) == CountIf(list, TRUE)
untracked_count(list) == CountIf(list, FALSE)

IsUntracked(entry) == ~entry.is_current
\* The entries that are not current, in the order of the list.
untracked_entries(list) == SelectSeq(list, IsUntracked)

\* Mutant of SingleEntrySkips: the one entry is saved whether current or not.
SingleEntryNeverSkips(entry) == FALSE

\* A list of one entry: TRUE when the slot is skipped.
SingleEntrySkips(entry) == entry.is_current

\* match duplicate_behaviour: "ask" stands for the call of
\* ask_for_duplicate_behaviour, "panic" for the panic!.
BehaviourFor(duplicate_behaviour, has_current, has_untracked) ==
    IF duplicate_behaviour = Unset
    THEN IF has_current /\ has_untracked THEN "ask"
         ELSE IF has_current THEN TakeCurrent
         ELSE IF has_untracked THEN TakeUntracked
         ELSE "panic"
    ELSE duplicate_behaviour

\* Mutant of BranchFor: a slot with a current entry is skipped whatever the
\* behaviour.
BranchForKeepsCurrent(list, current_behaviour) ==
    LET has_current == current_count(list) = 1
        has_multiple_untracked == untracked_count(list) > 1
    IN  IF has_current THEN "continue"
        ELSE IF untracked_count(list) = 1 /\ current_behaviour = TakeUntracked
        THEN "save_untracked"
        ELSE IF has_multiple_untracked THEN "choose"
        ELSE "panic"

\* The if / else-if chain that follows: "continue", "save_untracked" (the one
\* untracked entry), "choose" (ask for an ordinal) or "panic".
BranchFor(list, current_behaviour) ==
    LET has_current == current_count(list) = 1
        has_multiple_untracked == untracked_count(list) > 1
    IN  IF has_current /\ current_behaviour = TakeCurrent THEN "continue"
        ELSE IF untracked_count(list) = 1 /\ current_behaviour = TakeUntracked
        THEN "save_untracked"
        ELSE IF has_multiple_untracked THEN "choose"
        ELSE "panic"

\* The predicate handed to ask_for_integer.
OrdinalAccepted(value) == value > 0
\* Mutant of EntryIdx: the 1-based answer is used as a 0-based index.
EntryIdxNoOffset(value) == value

\* ask_for_integer(..) - 1
EntryIdx(value) == value - 1

\* Mutant of HeaderByteOffset: the slot index is used as a byte offset.
HeaderByteOffsetUnscaled(header_idx) == header_idx

\* header_idx * 4
HeaderByteOffset(header_idx) == header_idx * 4

\* Mutant of ShouldWrite: the file is written whether or not a slot changed.
AlwaysWrite(recovered) == TRUE

\* if any_recovered { fs::write(..) }
ShouldWrite(recovered) == recovered

\* ------------------------------------------------------------ main
\* file_name.split('.'), then [1].parse().unwrap() and [2].parse().unwrap():
\* ok is FALSE when an index is out of range or a token is no i32 (a panic).
ParseRegionPosition(name) ==
    LET file_name_split == split_dots(name)
        x == IF Len(file_name_split) >= 2 THEN ParseI32(file_name_split[2])
             ELSE [ok |-> FALSE, value |-> 0]
        z == IF Len(file_name_split) >= 3 THEN ParseI32(file_name_split[3])
             ELSE [ok |-> FALSE, value |-> 0]
    IN  [ok |-> x.ok /\ z.ok, position |-> <<x.value, z.value>>]

\* The filter of main's loop: a non-directory whose extension ends with "mca".
IsRegionFile(file) ==
    /\ ~file.is_dir
    /\ HasExtension(file.name)
    /\ ends_with(Extension(file.name), <<"m", "c", "a">>)

\* ------------------------------------------------------------ state
VARIABLES
    disk,                \* the region directory: a sequence of files
    duplicate_behaviour, \* args.duplicate_behaviour
    run,                 \* "first" or "second" run of the program
    pc,                  \* "main", "resolve", "ask_behaviour", "ask_ordinal",
                         \* "exit" (main returned) or "panic"
    panic,               \* the message of the panic, "" when there is none
    file_idx,            \* position of main's loop in the directory
    bytes,               \* recover_entries: the buffer read from the file
    region_position,     \* recover_entries: the position parsed from the name
    entries,             \* entries_by_header_idx (the non-empty lists)
    header_idx,          \* position of the resolution loop
    any_recovered,
    current_behaviour,   \* the behaviour in force while an ordinal is asked
    rejected,            \* lines rejected at the prompts of this file
    orig,                \* history: the buffer as read
    scan,                \* history: the iterations of the scan loop
    results,             \* history: slot -> what resolution did for it
    asked,               \* history: the slots a prompt was shown for
    ordinals,            \* history: slot -> the integer ask_for_integer returned
    processed,           \* history: files recover_entries was called for
    reported,            \* history: files an error was printed for
    finished,            \* history: file -> summary of its finished recovery
    first                \* history: `finished` of the first run

fileVars == <<bytes, region_position, entries, header_idx, any_recovered,
              current_behaviour, rejected, orig, scan, results, asked, ordinals>>
vars == <<disk, duplicate_behaviour, run, pc, panic, file_idx, bytes,
          region_position, entries, header_idx, any_recovered, current_behaviour,
          rejected, orig, scan, results, asked, ordinals, processed, reported,
          finished, first>>

\* ------------------------------------------------------------ initial files
Chars(str) ==
    CASE str = "r.0.0.mca" -> <<"r", ".", "0", ".", "0", ".", "m", "c", "a">>
      [] str = "r.-1.2.mca" -> <<"r", ".", "-", "1", ".", "2", ".", "m", "c", "a">>
      [] str = "r.a.0.mca" -> <<"r", ".", "a", ".", "0", ".", "m", "c", "a">>
      [] str = "x.mca" -> <<"x", ".", "m", "c", "a">>
      [] str = "notes.txt" -> <<"n", "o", "t", "e", "s", ".", "t", "x", "t">>
      [] str = "takecurrent" -> <<"t", "a", "k", "e", "c", "u", "r", "r", "e", "n", "t">>
      [] str = "TakeCurrent" -> <<"T", "a", "k", "e", "C", "u", "r", "r", "e", "n", "t">>
      [] str = "takeuntracked" ->
            <<"t", "a", "k", "e", "u", "n", "t", "r", "a", "c", "k", "e", "d">>
      [] str = "TAKEUNTRACKED" ->
            <<"T", "A", "K", "E", "U", "N", "T", "R", "A", "C", "K", "E", "D">>
      [] str = "decideperentry" ->
            <<"d", "e", "c", "i", "d", "e", "p", "e", "r", "e", "n", "t", "r", "y">>

\* The buffer holding the given <<offset, value>> pairs, zero elsewhere.
BufferOf(len, pairs) ==
    LET offs == {p[1] : p \in {q \in pairs : q[2] # 0}}
    IN  [len |-> len,
         data |-> [i \in offs |-> (CHOOSE q \in pairs : q[1] = i)[2]]]

BigEndianPairs(off, v) ==
    {<<off, (v \div Pow2(24)) % 256>>, <<off + 1, (v \div Pow2(16)) % 256>>,
     <<off + 2, (v \div Pow2(8)) % 256>>, <<off + 3, v % 256>>}

\* A payload sector: length prefix, compression tag, then the stream.
PayloadPairs(off, size_bytes, tag, marker, shape, x, z) ==
    BigEndianPairs(off, size_bytes)
        \cup {<<off + 4, tag>>, <<off + 5, marker>>, <<off + 6, shape>>,
              <<off + 7, x % 256>>, <<off + 8, z % 256>>}

Templates == {"blank", "plain", "level_gz", "two_sector", "no_xpos",
              "level_zpos_string", "level_int", "garbage"}

\* plain and level_gz belong to slot 1, two_sector to slot 63.  level_gz
\* declares 4094 bytes (two short of a sector), two_sector 4097.
TemplatePairs(t, off) ==
    CASE t = "blank" -> {}
      [] t = "plain" -> PayloadPairs(off, 100, 2, 2, 1, 1, 0)
      [] t = "level_gz" -> PayloadPairs(off, SECTOR_SIZE - 2, 1, 1, 2, 0 - 31, 32)
      [] t = "two_sector" -> PayloadPairs(off, SECTOR_SIZE + 1, 2, 2, 1, 0 - 1, 1)
      [] t = "no_xpos" -> PayloadPairs(off, 100, 2, 2, 4, 1, 0)
      [] t = "level_zpos_string" -> PayloadPairs(off, 100, 1, 1, 5, 1, 0)
      [] t = "level_int" -> PayloadPairs(off, 100, 2, 2, 3, 1, 0)
      [] t = "garbage" -> PayloadPairs(off, 100, 2, 0, 0, 0, 0)

\* The header tables of the initial files: slot -> <<offset, size>>.
HeaderTables ==
    {[s \in {} |-> <<0, 0>>],
     [s \in {1} |-> <<2, 1>>],
     [s \in {1} |-> <<2, 2>>],
     [s \in {1, 63} |-> <<3, IF s = 1 THEN 1 ELSE 2>>]}

HeaderPairs(table) ==
    UNION {BigEndianPairs(s * 4, table[s][1] * Pow2(SIZE_BITS) + table[s][2])
            : s \in DOMAIN table}

\* One byte of the timestamp table is set in every initial file.
TimestampPairs == {<<SECTOR_SIZE + 7, 9>>}

RegionBuffer(table, payload) ==
    BufferOf((2 + Len(payload)) * SECTOR_SIZE,
             HeaderPairs(table) \cup TimestampPairs
                \cup UNION {TemplatePairs(payload[i], (i + 1) * SECTOR_SIZE)
                                : i \in 1..Len(payload)})

SeqsUpTo(S, n) == UNION {[1..k -> S] : k \in 0..n}

File(name, is_dir, read_ok, write_ok, data) ==
    [name |-> Chars(name), is_dir |-> is_dir, read_ok |-> read_ok,
     write_ok |-> write_ok, data |-> data]

\* A directory of one file: any region buffer within the bounds.
SingleFiles ==
    {File("r.0.0.mca", FALSE, TRUE, TRUE, RegionBuffer(table, payload))
        : table \in HeaderTables, payload \in SeqsUpTo(Templates, MaxSectors - 2)}

\* A directory of several files is made of these.
Lost == RegionBuffer([s \in {} |-> <<0, 0>>], <<"plain">>)
BatchFiles ==
    {File("r.0.0.mca", FALSE, TRUE, TRUE, Lost),
     File("r.-1.2.mca", FALSE, TRUE, FALSE, Lost),
     File("r.0.0.mca", FALSE, FALSE, TRUE, Lost),
     File("r.a.0.mca", FALSE, TRUE, TRUE, Lost),
     File("x.mca", FALSE, TRUE, TRUE, Lost),
     File("x.mca", TRUE, TRUE, TRUE, Lost),
     File("notes.txt", FALSE, TRUE, TRUE, Lost)}

Directories ==
    {<<f>> : f \in SingleFiles} \cup UNION {[1..k -> BatchFiles] : k \in 2..MaxFiles}

EmptyBuffer == [len |-> 0, data |-> NoData]
NoResults == [s \in {} |-> [action |-> "none", offset_sectors |-> 0, size_sectors |-> 0]]
NoFiles == [i \in {} |-> 0]
NoOrdinals == [s \in {} |-> 0]

FileInit ==
    /\ bytes = EmptyBuffer
    /\ region_position = <<0, 0>>
    /\ entries = NoEntries
    /\ header_idx = 0
    /\ any_recovered = FALSE
    /\ current_behaviour = Unset
    /\ rejected = 0
    /\ orig = EmptyBuffer
    /\ scan = <<>>
    /\ results = NoResults
    /\ asked = {}
    /\ ordinals = NoOrdinals

Init ==
    /\ disk \in Directories
    /\ duplicate_behaviour \in {Unset, TakeCurrent, TakeUntracked}
    /\ run = "first"
    /\ pc = "main"
    /\ panic = ""
    /\ file_idx = 1
    /\ FileInit
    /\ processed = {}
    /\ reported = {}
    /\ finished = NoFiles
    /\ first = NoFiles

\* ------------------------------------------------------------ actions
NoAction == [action |-> "none", offset_sectors |-> 0, size_sectors |-> 0]
Adopt(entry) == [action |-> "adopt", offset_sectors |-> entry.offset_sectors,
                 size_sectors |-> entry.size_sectors]
Record(slot, r) ==
    [s \in DOMAIN results \cup {slot} |-> IF s = slot THEN r ELSE results[s]]

Panic(message) ==
    /\ pc' = "panic"
    /\ panic' = message

\* continue: the slot is left as it is.
Continue(slot) ==
    /\ results' = Record(slot, NoAction)
    /\ header_idx' = slot + 1
    /\ pc' = "resolve"
    /\ UNCHANGED <<panic, bytes, any_recovered>>

\* any_recovered = true; set_header_entry(..)
Save(slot, entry) ==
    LET r == set_header_entry(bytes, HeaderByteOffset(slot), entry.offset_sectors,
                              entry.size_sectors)
    IN  /\ any_recovered' = TRUE
        /\ bytes' = r.bytes
        /\ IF r.ok
           THEN /\ results' = Record(slot, Adopt(entry))
                /\ header_idx' = slot + 1
                /\ pc' = "resolve"
                /\ UNCHANGED panic
           ELSE /\ Panic("assertion failed: left == right")
                /\ UNCHANGED <<results, header_idx>>

\* The if / else-if chain once the behaviour is known.
Branch(slot, behaviour) ==
    LET list == entries[slot]
        branch == BranchFor(list, behaviour)
    IN  /\ current_behaviour' = behaviour
        /\ CASE branch = "continue" -> Continue(slot) /\ UNCHANGED asked
             [] branch = "save_untracked" ->
                    Save(slot, untracked_entries(list)[1]) /\ UNCHANGED asked
             [] branch = "choose" ->
                    /\ pc' = "ask_ordinal"
                    /\ header_idx' = slot
                    /\ asked' = asked \cup {slot}
                    /\ UNCHANGED <<panic, bytes, any_recovered, results>>
             [] OTHER ->
                    /\ Panic("Should never be reached")
                    /\ header_idx' = slot
                    /\ UNCHANGED <<bytes, any_recovered, results, asked>>

\* main's loop passes over an entry that is a directory or no .mca file.
SkipEntry ==
    /\ pc = "main"
    /\ file_idx <= Len(disk)
    /\ ~IsRegionFile(disk[file_idx])
    /\ file_idx' = file_idx + 1
    /\ UNCHANGED <<disk, duplicate_behaviour, run, pc, panic, fileVars, processed,
                   reported, finished, first>>

\* recover_entries: fs::read fails, the error is returned and main prints it.
ReadFails ==
    /\ pc = "main"
    /\ file_idx <= Len(disk)
    /\ IsRegionFile(disk[file_idx])
    /\ ~disk[file_idx].read_ok
    /\ processed' = processed \cup {file_idx}
    /\ reported' = reported \cup {file_idx}
    /\ file_idx' = file_idx + 1
    /\ UNCHANGED <<disk, duplicate_behaviour, run, pc, panic, fileVars, finished,
                   first>>

\* recover_entries up to the resolution loop: the file is read, the region
\* position parsed from its name and the buffer scanned.
RecoverBegin ==
    /\ pc = "main"
    /\ file_idx <= Len(disk)
    /\ IsRegionFile(disk[file_idx])
    /\ disk[file_idx].read_ok
    /\ LET read == disk[file_idx].data
           name == ParseRegionPosition(disk[file_idx].name)
           found == discover_all_entries(read)
       IN  /\ processed' = processed \cup {file_idx}
           /\ bytes' = read
           /\ orig' = read
           /\ any_recovered' = FALSE
           /\ current_behaviour' = Unset
           /\ rejected' = 0
           /\ results' = NoResults
           /\ asked' = {}
           /\ ordinals' = NoOrdinals
           /\ header_idx' = 0
           /\ IF ~name.ok
              THEN /\ Panic("file name")
                   /\ region_position' = <<0, 0>>
                   /\ entries' = NoEntries
                   /\ scan' = <<>>
              ELSE /\ region_position' = name.position
                   /\ scan' = found.scan
                   /\ entries' = IF found.panicked THEN NoEntries ELSE found.entries
                   /\ IF found.panicked
                      THEN Panic(found.scan[Len(found.scan)].outcome)
                      ELSE pc' = "resolve" /\ UNCHANGED panic
    /\ UNCHANGED <<disk, duplicate_behaviour, run, file_idx, reported, finished, first>>

\* The slots at or after header_idx whose list is not empty.
SlotsLeft == {s \in DOMAIN entries : s >= header_idx}
NextSlot == CHOOSE s \in SlotsLeft : \A t \in SlotsLeft : s <= t

\* One iteration of the resolution loop, for the next slot that has entries
\* (the iterations over empty lists do nothing).
ResolveSlot ==
    /\ pc = "resolve"
    /\ SlotsLeft # {}
    /\ LET slot == NextSlot
           list == entries[slot]
           has_current == current_count(list) = 1
           has_untracked == untracked_count(list) > 0
           behaviour == BehaviourFor(duplicate_behaviour, has_current, has_untracked)
       IN  IF Len(list) = 1
           THEN /\ IF SingleEntrySkips(list[1])
                   THEN Continue(slot)
                   ELSE Save(slot, list[1])
                /\ UNCHANGED <<current_behaviour, asked>>
           ELSE IF ~(current_count(list) <= 1)
           THEN /\ Panic("assertion failed: current_count <= 1")
                /\ header_idx' = slot
                /\ UNCHANGED <<bytes, any_recovered, results, current_behaviour, asked>>
           ELSE IF behaviour = "panic"
           THEN /\ Panic("Entry is neither current nor untracked?!")
                /\ header_idx' = slot
                /\ UNCHANGED <<bytes, any_recovered, results, current_behaviour, asked>>
           ELSE IF behaviour = "ask"
           THEN /\ pc' = "ask_behaviour"
                /\ header_idx' = slot
                /\ asked' = asked \cup {slot}
                /\ UNCHANGED <<panic, bytes, any_recovered, results, current_behaviour>>
           ELSE Branch(slot, behaviour)
    /\ UNCHANGED <<disk, duplicate_behaviour, run, file_idx, region_position, entries,
                   rejected, orig, scan, ordinals, processed, reported, finished, first>>

\* The lines typed at ask_for_duplicate_behaviour.
BehaviourLines ==
    {Chars("takecurrent") \o <<"\n">>, Chars("TakeCurrent") \o <<"\r", "\n">>,
     Chars("takeuntracked"), Chars("TAKEUNTRACKED") \o <<"\n">>,
     Chars("decideperentry") \o <<"\n">>, <<"\n">>}

\* ask_for_duplicate_behaviour: the behaviour a line stands for, "" if none.
BehaviourOfLine(line) ==
    LET text == to_lowercase(trim_newline(line))
    IN  IF text = Chars("takecurrent") THEN TakeCurrent
        ELSE IF text = Chars("takeuntracked") THEN TakeUntracked
        ELSE ""

\* One line read by ask_for_duplicate_behaviour: an unknown line prints
\* "Invalid value!" and the loop reads again.
AnswerBehaviour ==
    /\ pc = "ask_behaviour"
    /\ \E line \in BehaviourLines :
          LET behaviour == BehaviourOfLine(line)
          IN  IF behaviour = ""
              THEN /\ rejected < MaxRejected
                   /\ rejected' = rejected + 1
                   /\ UNCHANGED <<pc, panic, bytes, header_idx, any_recovered,
                                  current_behaviour, results, asked>>
              ELSE /\ Branch(header_idx, behaviour)
                   /\ UNCHANGED rejected
    /\ UNCHANGED <<disk, duplicate_behaviour, run, file_idx, region_position, entries,
                   orig, scan, ordinals, processed, reported, finished, first>>

\* The lines typed at ask_for_integer.
DigitChar(d) ==
    CASE d = 0 -> "0" [] d = 1 -> "1" [] d = 2 -> "2" [] d = 3 -> "3" [] d = 4 -> "4"
      [] d = 5 -> "5" [] d = 6 -> "6" [] d = 7 -> "7" [] d = 8 -> "8" [] d = 9 -> "9"
OrdinalLines ==
    {<<DigitChar(d), "\n">> : d \in 0..(MaxSectors - 1)}
        \cup {<<"-", "1", "\n">>, <<"+", "2">>, <<"x", "\n">>, <<"\n">>}

\* ask_for_integer(predicate): a line is read until it parses as an integer
\* the predicate accepts.
AskForIntegerAccepts(line) ==
    LET parsed == ParseI32(trim_newline(line))
    IN  parsed.ok /\ OrdinalAccepted(parsed.value)

\* One line read by ask_for_integer, then untracked_entries[entry_idx].
AnswerOrdinal ==
    /\ pc = "ask_ordinal"
    /\ \E line \in OrdinalLines :
          LET value == ParseI32(trim_newline(line)).value
              untracked == untracked_entries(entries[header_idx])
              entry_idx == EntryIdx(value)
          IN  IF ~AskForIntegerAccepts(line)
              THEN /\ rejected < MaxRejected
                   /\ rejected' = rejected + 1
                   /\ UNCHANGED <<pc, panic, bytes, header_idx, any_recovered, results,
                                  ordinals>>
              ELSE /\ ordinals' = [s \in DOMAIN ordinals \cup {header_idx} |->
                                     IF s = header_idx THEN value ELSE ordinals[s]]
                   /\ IF entry_idx >= 0 /\ entry_idx < Len(untracked)
                      THEN Save(header_idx, untracked[entry_idx + 1])
                      ELSE /\ Panic("index out of bounds")
                           /\ UNCHANGED <<bytes, header_idx, any_recovered, results>>
                   /\ UNCHANGED rejected
    /\ UNCHANGED <<disk, duplicate_behaviour, run, file_idx, region_position, entries,
                   current_behaviour, orig, scan, asked, processed, reported, finished,
                   first>>

Summary(write, wrote) ==
    [entries |-> entries, results |-> results, asked |-> asked, before |-> orig,
     after |-> bytes, write_called |-> write, wrote |-> wrote]

\* The end of recover_entries: the buffer is written back if any_recovered,
\* and a failed write is returned as the error main prints.  fs::write is the
\* file system's: a write that fails is taken to leave the file as it was.
FinishFile ==
    /\ pc = "resolve"
    /\ SlotsLeft = {}
    /\ LET write == ShouldWrite(any_recovered)
           wrote == write /\ disk[file_idx].write_ok
       IN  /\ disk' = IF wrote THEN [disk EXCEPT ![file_idx].data = bytes] ELSE disk
           /\ reported' = IF write /\ ~wrote THEN reported \cup {file_idx} ELSE reported
           /\ finished' = [i \in DOMAIN finished \cup {file_idx} |->
                             IF i = file_idx THEN Summary(write, wrote) ELSE finished[i]]
    /\ pc' = "main"
    /\ file_idx' = file_idx + 1
    /\ UNCHANGED <<duplicate_behaviour, run, panic, fileVars, processed, first>>

\* main returns Ok(()) after the last entry of the directory.
MainReturns ==
    /\ pc = "main"
    /\ file_idx > Len(disk)
    /\ pc' = "exit"
    /\ UNCHANGED <<disk, duplicate_behaviour, run, panic, file_idx, fileVars,
                   processed, reported, finished, first>>

\* The program is run a second time over the directory as the first run left
\* it, with the same arguments.
RunAgain ==
    /\ pc = "exit"
    /\ run = "first"
    /\ run' = "second"
    /\ pc' = "main"
    /\ file_idx' = 1
    /\ first' = finished
    /\ finished' = NoFiles
    /\ processed' = {}
    /\ reported' = {}
    /\ UNCHANGED <<disk, duplicate_behaviour, panic, fileVars>>

Next ==
    \/ SkipEntry
    \/ ReadFails
    \/ RecoverBegin
    \/ ResolveSlot
    \/ AnswerBehaviour
    \/ AnswerOrdinal
    \/ FinishFile
    \/ MainReturns
    \/ RunAgain

Spec == Init /\ [][Next]_vars

\* ------------------------------------------------------------ properties
\* unpack of the header entry of a slot: <<offset_sectors, size_sectors>>.
HeaderEntry(b, slot) ==
    LET packed == read_bigendian_u32(b, slot * 4)
    IN  <<packed \div Pow2(SIZE_BITS), packed % (SIZE_MASK + 1)>>

EntryPair(entry) == <<entry.offset_sectors, entry.size_sectors>>

\* The resolution loop has gone past the slot.
Resolved(slot) == header_idx > slot

OneCurrentOneUntracked(list) ==
    Len(list) = 2 /\ current_count(list) = 1 /\ untracked_count(list) = 1

\* C1: for a slot whose list holds one current and exactly one untracked
\* candidate, a fixed TakeCurrent shows no prompt, yields no action and leaves
\* the slot's header entry as it was read; a fixed TakeUntracked shows no
\* prompt and adopts the untracked candidate, whose (offset_sectors,
\* size_sectors) become the slot's header entry.
C1_FixedPolicy ==
    \A slot \in DOMAIN entries :
        (OneCurrentOneUntracked(entries[slot]) /\ duplicate_behaviour # Unset) =>
            LET untracked == untracked_entries(entries[slot])[1]
            IN  /\ slot \notin asked
                /\ Resolved(slot) =>
                     /\ slot \in DOMAIN results
                     /\ duplicate_behaviour = TakeCurrent =>
                          /\ results[slot] = NoAction
                          /\ HeaderEntry(bytes, slot) = HeaderEntry(orig, slot)
                     /\ duplicate_behaviour = TakeUntracked =>
                          /\ results[slot] = Adopt(untracked)
                          /\ HeaderEntry(bytes, slot) = EntryPair(untracked)

C1_Witness ==
    \E slot \in DOMAIN results :
        /\ OneCurrentOneUntracked(entries[slot])
        /\ duplicate_behaviour = TakeUntracked
        /\ results[slot].action = "adopt"
        /\ HeaderEntry(orig, slot) = <<2, 1>>
        /\ HeaderEntry(bytes, slot) = <<3, 1>>

\* C2: every integer the ordinal prompt accepts for a slot is positive and
\* not greater than the number of the slot's untracked candidates, so no
\* answer makes the run abort on the index.
C2_OrdinalValidated ==
    \A slot \in DOMAIN ordinals :
        /\ ordinals[slot] >= 1
        /\ ordinals[slot] <= untracked_count(entries[slot])
        /\ ~(pc = "panic" /\ header_idx = slot)

\* C3: for a slot with no current candidate and two or more untracked ones,
\* an accepted ordinal k within the list adopts the k-th untracked candidate,
\* and the untracked candidates are listed by ascending sector, so the
\* ordinal 2 of two picks the higher sector.
C3_OrdinalPicks ==
    \A slot \in DOMAIN ordinals :
        LET list == entries[slot]
            untracked == untracked_entries(list)
            k == ordinals[slot]
        IN  (current_count(list) = 0 /\ Len(untracked) >= 2 /\ k <= Len(untracked)) =>
                /\ slot \in DOMAIN results
                /\ results[slot] = Adopt(untracked[k])
                /\ HeaderEntry(bytes, slot) = EntryPair(untracked[k])
                /\ \A i, j \in 1..Len(untracked) :
                      i < j => untracked[i].offset_sectors < untracked[j].offset_sectors

C3_Witness ==
    \E slot \in DOMAIN ordinals :
        LET untracked == untracked_entries(entries[slot])
        IN  /\ current_count(entries[slot]) = 0
            /\ Len(untracked) = 2
            /\ ordinals[slot] = 2
            /\ results[slot] = Adopt(untracked[2])
            /\ untracked[2].offset_sectors > untracked[1].offset_sectors

\* Every slot that has a candidate has one candidate, and it is current.
FullyRecovered(found) ==
    \A slot \in DOMAIN found : Len(found[slot]) = 1 /\ found[slot][1].is_current

AllNoAction(found, res) ==
    DOMAIN res = DOMAIN found /\ \A slot \in DOMAIN res : res[slot] = NoAction

\* C4: on a fully recovered file, under every policy, resolution shows no
\* prompt, yields no action for every slot and leaves the buffer as it was
\* read, the file is not written, and the second run ends as the first did.
C4_Idempotent ==
    /\ FullyRecovered(entries) =>
          /\ asked = {}
          /\ pc \notin {"ask_behaviour", "ask_ordinal"}
          /\ \A slot \in DOMAIN results : results[slot] = NoAction
          /\ bytes = orig
          /\ ~any_recovered
    /\ \A i \in DOMAIN finished :
          FullyRecovered(finished[i].entries) =>
              /\ AllNoAction(finished[i].entries, finished[i].results)
              /\ finished[i].after = finished[i].before
              /\ ~finished[i].write_called
              /\ disk[i].data = finished[i].before
    /\ \A i \in DOMAIN first :
          FullyRecovered(first[i].entries) =>
              /\ disk[i].data = first[i].before
              /\ i \in DOMAIN finished => finished[i] = first[i]

C4_Witness ==
    /\ run = "second"
    /\ \E i \in DOMAIN finished \cap DOMAIN first :
          /\ DOMAIN first[i].entries # {}
          /\ FullyRecovered(first[i].entries)
          /\ AllNoAction(finished[i].entries, finished[i].results)

HeaderChanged(before, after) ==
    \E slot \in 0..1023 : HeaderEntry(before, slot) # HeaderEntry(after, slot)

\* C5: fs::write is called for a file only when the header entry of at least
\* one slot differs from the one read, and a file whose scan finds no
\* candidate keeps its buffer and is not written.
C5_WriteOnlyOnChange ==
    /\ DOMAIN entries = {} => bytes = orig /\ ~any_recovered
    /\ \A i \in DOMAIN finished :
          /\ finished[i].write_called => HeaderChanged(finished[i].before, finished[i].after)
          /\ DOMAIN finished[i].entries = {} =>
                /\ ~finished[i].write_called
                /\ finished[i].after = finished[i].before
          /\ ~finished[i].wrote => disk[i].data = finished[i].before

C5_Witness ==
    \E i \in DOMAIN finished :
        /\ finished[i].write_called
        /\ finished[i].wrote
        /\ HeaderChanged(finished[i].before, finished[i].after)
        /\ disk[i].data = finished[i].after

AdoptedSlots(res) == {slot \in DOMAIN res : res[slot].action = "adopt"}

\* The bytes that differ lie in the header entries of the adopted slots.
OnlyAdoptedEntries(before, after, res) ==
    /\ after.len = before.len
    /\ \A i \in DiffOffsets(before, after) :
          /\ i < SECTOR_SIZE
          /\ (i \div 4) \in AdoptedSlots(res)
          /\ (i \div 4) \in 0..1023

\* C6: the bytes of the buffer that differ from the ones read are bytes of the
\* 4-byte header entries of the slots for which a candidate was adopted: the
\* timestamp table, the payload sectors and the other header entries keep
\* their bytes, in memory and in the file written back.
C6_WritesInHeader ==
    /\ OnlyAdoptedEntries(orig, bytes, results)
    /\ \A i \in DOMAIN finished :
          /\ OnlyAdoptedEntries(finished[i].before, finished[i].after, finished[i].results)
          /\ disk[i].data \in {finished[i].before, finished[i].after}

C6_Witness ==
    \E i \in DOMAIN finished :
        /\ finished[i].wrote
        /\ AdoptedSlots(finished[i].results) # {}
        /\ DiffOffsets(finished[i].before, disk[i].data) # {}
        /\ ByteAt(disk[i].data, SECTOR_SIZE + 7) = 9

\* The payload of the sector passes the length and tag check, decodes, and
\* its field container (the tree, or its Level compound) lacks an integer
\* xPos or zPos.
CoordsUnreadable(b, sector_idx) ==
    LET byte_offset == sector_idx * SECTOR_SIZE
        size_bytes == read_bigendian_u32(b, byte_offset)
        tag == ByteAt(b, byte_offset + 4)
        root == read_nbt(b, SliceStart(byte_offset), SliceEnd(byte_offset, size_bytes), tag)
    IN  /\ ~SizeOrFormatInvalid(b, byte_offset, size_bytes, tag)
        /\ SliceEnd(byte_offset, size_bytes) <= b.len
        /\ root.ok
        /\ root.tree.Level # "other"
        /\ (LevelOf(root.tree).xPos.tag # "Int" \/ LevelOf(root.tree).zPos.tag # "Int")

\* C7: a payload that decodes but lacks an integer xPos or zPos is discarded
\* and the scan goes on: the iteration neither adds an entry nor panics.
C7_MissingCoordsDiscarded ==
    \A k \in 1..Len(scan) :
        CoordsUnreadable(orig, scan[k].sector) =>
            scan[k].outcome # "entry" /\ ~Panics(scan[k].outcome)

\* The file failed on its own: it could not be read, its name holds no region
\* position, or it could not be written.
PerFileFailure(i) ==
    \/ ~disk[i].read_ok
    \/ ~ParseRegionPosition(disk[i].name).ok
    \/ (i \in DOMAIN finished /\ finished[i].write_called /\ ~finished[i].wrote)

\* C8: when the run is over, every file recover_entries was called for that
\* failed on its own has its error reported, and every region file after it
\* in the directory was processed.
C8_BatchContinues ==
    pc \in {"exit", "panic"} =>
        \A i \in processed :
            PerFileFailure(i) =>
                /\ i \in reported
                /\ \A j \in (i + 1)..Len(disk) :
                      IsRegionFile(disk[j]) => j \in processed

\* The part of C8 about I/O errors: once main has returned, every file that
\* could not be read or written has its error reported and every region file
\* of the directory was processed.
IoFailuresReported ==
    pc = "exit" =>
        /\ \A i \in processed :
              (~disk[i].read_ok
                \/ (i \in DOMAIN finished /\ finished[i].write_called
                        /\ ~finished[i].wrote)) => i \in reported
        /\ \A j \in 1..Len(disk) : IsRegionFile(disk[j]) => j \in processed

\* C9: the slice of every sector that passes the length and tag check ends at
\* or before the end of the buffer.
C9_SliceInBuffer ==
    \A k \in 1..Len(scan) :
        scan[k].outcome # "skip" => scan[k].slice_end <= orig.len

FatalChecks ==
    {"assertion failed: current_count <= 1",
     "Entry is neither current nor untracked?!",
     "Should never be reached"}

\* The three fatal checks of the resolution of a slot are never reached.
FatalChecksUnreached == panic \notin FatalChecks

\* C10: the resolution of a slot with two or more candidates reaches none of
\* the three fatal checks and ends in no action or in one adopted candidate:
\* it never ends in a panic.
C10_ResolutionNeverFatal ==
    /\ FatalChecksUnreached
    /\ \A slot \in DOMAIN entries :
          Len(entries[slot]) >= 2 =>
              /\ ~(pc = "panic" /\ header_idx = slot)
              /\ Resolved(slot) => slot \in DOMAIN results
              /\ current_count(entries[slot]) <= 1

====
